---- MODULE Spec2Model ----
(***************************************************************************)
(* Name validation of src/src/pages/Home.tsx (component NameTable):        *)
(* detectScript, containsSecurityThreat, properCapitalize, validateName,   *)
(* and the handlers of the component: file upload and removal, processCSV  *)
(* with its deferred chunks, filterProblemNames.                           *)
(*                                                                         *)
(* JavaScript strings are TLA+ strings; only Len, \o and SubSeq are used   *)
(* on them.  A module is ASCII text, so every character outside ASCII that *)
(* the code distinguishes is written as an ASCII stand-in, and CodePoint   *)
(* gives the code point it stands for:                                     *)
(*    #  U+FFFD replacement character                                      *)
(*    1  U+0414 Cyrillic capital DE      2  U+0434 Cyrillic small de       *)
(*    3  U+0915 Devanagari KA            4  U+0645 Arabic MEEM             *)
(*    5  U+674E Han                      6  U+3042 Hiragana A              *)
(*    7  U+30A2 Katakana A               8  U+D55C Hangul                  *)
(*    9  U+0E01 Thai KO KAI              0  U+00E9 e acute                 *)
(*    @  U+00C9 E acute                  =  U+00F1 n tilde                 *)
(*    +  U+00D1 N tilde                  &  U+00C3 A tilde                 *)
(*    %  U+00E3 a tilde                  $  U+00A9 copyright sign          *)
(*    ~  U+00B1 plus-minus sign          !  U+0750 Arabic Supplement       *)
(*    ?  U+3400 CJK Extension A          ^  U+1100 Hangul Jamo             *)
(*    _  U+05D0 Hebrew ALEF                                                *)
(* The tab character stands for every white space other than the space.   *)
(***************************************************************************)
EXTENDS Integers, Sequences, FiniteSets, TLC

VARIABLES input, result, pc,
          file, csvData, columns, nameColumn, processedData, validationResults,
          processing, processProgress, error,
          reading, batch

(* the state of the component: its useState cells, the file whose read has
   been started and not delivered (reading), and the closure of the chunk
   that setTimeout has scheduled (batch) *)
tableVars == <<file, csvData, columns, nameColumn, processedData, validationResults,
               processing, processProgress, error, reading, batch>>

vars == <<input, result, pc, tableVars>>

NoFile == [t |-> "null"]
NoRead == ""
NoBatch == [none |-> TRUE]

initialValidationResults ==
  [total |-> 0, processed |-> 0, nonLatinNames |-> 0, suspiciousEntries |-> 0,
   securityIssues |-> 0, nullValues |-> 0, issuesFound |-> 0, commaFormatNames |-> 0]

(* the component as mounted *)
TableInitial ==
  /\ file = NoFile
  /\ csvData = <<>>
  /\ columns = <<>>
  /\ nameColumn = ""
  /\ processedData = <<>>
  /\ validationResults = initialValidationResults
  /\ processing = FALSE
  /\ processProgress = 0
  /\ error = ""
  /\ reading = NoRead
  /\ batch = NoBatch

----------------------------------------------------------------------------
(* Characters *)

Lowers == "abcdefghijklmnopqrstuvwxyz"
Uppers == "ABCDEFGHIJKLMNOPQRSTUVWXYZ"

CharAt(s, i) == IF i >= 1 /\ i <= Len(s) THEN SubSeq(s, i, i) ELSE ""

Chars(s) == {SubSeq(s, i, i) : i \in 1..Len(s)}

IndexIn(c, s) == IF c \in Chars(s) THEN CHOOSE i \in 1..Len(s) : SubSeq(s, i, i) = c ELSE 0

NonAsciiCode ==
  [c \in {"#", "1", "2", "3", "4", "5", "6", "7", "8", "9", "0", "@", "=", "+",
          "&", "%", "$", "~", "!", "?", "^", "_"} |->
     CASE c = "#" -> 65533
       [] c = "1" -> 1044
       [] c = "2" -> 1076
       [] c = "3" -> 2325
       [] c = "4" -> 1605
       [] c = "5" -> 26446
       [] c = "6" -> 12354
       [] c = "7" -> 12450
       [] c = "8" -> 54620
       [] c = "9" -> 3585
       [] c = "0" -> 233
       [] c = "@" -> 201
       [] c = "=" -> 241
       [] c = "+" -> 209
       [] c = "&" -> 195
       [] c = "%" -> 227
       [] c = "$" -> 169
       [] c = "~" -> 177
       [] c = "!" -> 1872
       [] c = "?" -> 13312
       [] c = "^" -> 4352
       [] c = "_" -> 1488]

AsciiOtherCode ==
  [c \in {" ", "\t", ",", ".", "'", "-", ";", "/", "*", "<", ">", "(", ")"} |->
     CASE c = " " -> 32
       [] c = "\t" -> 9
       [] c = "," -> 44
       [] c = "." -> 46
       [] c = "'" -> 39
       [] c = "-" -> 45
       [] c = ";" -> 59
       [] c = "/" -> 47
       [] c = "*" -> 42
       [] c = "<" -> 60
       [] c = ">" -> 62
       [] c = "(" -> 40
       [] c = ")" -> 41]

LowerCode == [c \in Chars(Lowers) |-> 96 + IndexIn(c, Lowers)]
UpperCode == [c \in Chars(Uppers) |-> 64 + IndexIn(c, Uppers)]

CodePoint(c) ==
  IF c \in DOMAIN LowerCode THEN LowerCode[c]
  ELSE IF c \in DOMAIN UpperCode THEN UpperCode[c]
  ELSE IF c \in DOMAIN AsciiOtherCode THEN AsciiOtherCode[c]
  ELSE NonAsciiCode[c]

(* String.prototype.toLowerCase / toUpperCase, one character *)
LowerPairs == [c \in {"1", "@", "+", "&"} |->
                 CASE c = "1" -> "2" [] c = "@" -> "0" [] c = "+" -> "=" [] c = "&" -> "%"]
UpperPairs == [c \in {"2", "0", "=", "%"} |->
                 CASE c = "2" -> "1" [] c = "0" -> "@" [] c = "=" -> "+" [] c = "%" -> "&"]
LowerOfUpper == [c \in Chars(Uppers) |-> CharAt(Lowers, IndexIn(c, Uppers))]
UpperOfLower == [c \in Chars(Lowers) |-> CharAt(Uppers, IndexIn(c, Lowers))]

toLowerChar(c) ==
  IF c \in DOMAIN LowerOfUpper THEN LowerOfUpper[c]
  ELSE IF c \in DOMAIN LowerPairs THEN LowerPairs[c]
  ELSE c

toUpperChar(c) ==
  IF c \in DOMAIN UpperOfLower THEN UpperOfLower[c]
  ELSE IF c \in DOMAIN UpperPairs THEN UpperPairs[c]
  ELSE c

(* \s of a regular expression, and the white space trim() removes *)
IsSpaceChar(c) == c \in {" ", "\t"}

----------------------------------------------------------------------------
(* String methods *)

RECURSIVE toLowerCase(_)
toLowerCase(s) ==
  IF s = "" THEN "" ELSE toLowerChar(SubSeq(s, 1, 1)) \o toLowerCase(SubSeq(s, 2, Len(s)))

RECURSIVE toUpperCase(_)
toUpperCase(s) ==
  IF s = "" THEN "" ELSE toUpperChar(SubSeq(s, 1, 1)) \o toUpperCase(SubSeq(s, 2, Len(s)))

(* s.slice(k) with 0 <= k, zero-based as in the code *)
Slice(s, k) == SubSeq(s, k + 1, Len(s))

(* s.substring(a, b) *)
Substring(s, a, b) == SubSeq(s, a + 1, b)

(* s.charAt(k), zero-based *)
charAt(s, k) == CharAt(s, k + 1)

includes(s, p) ==
  \E i \in 1..(Len(s) - Len(p) + 1) : SubSeq(s, i, i + Len(p) - 1) = p

startsWith(s, p) == Len(p) <= Len(s) /\ SubSeq(s, 1, Len(p)) = p

(* s.split(c) for a one-character separator *)
RECURSIVE SplitFrom(_, _, _)
SplitFrom(s, c, acc) ==
  IF s = "" THEN <<acc>>
  ELSE IF SubSeq(s, 1, 1) = c
       THEN <<acc>> \o SplitFrom(SubSeq(s, 2, Len(s)), c, "")
       ELSE SplitFrom(SubSeq(s, 2, Len(s)), c, acc \o SubSeq(s, 1, 1))

split(s, c) == SplitFrom(s, c, "")

(* parts.join(sep) *)
RECURSIVE join(_, _)
join(parts, sep) ==
  IF parts = <<>> THEN ""
  ELSE IF Len(parts) = 1 THEN parts[1]
  ELSE parts[1] \o sep \o join(Tail(parts), sep)

(* parts.filter(Boolean): the empty string is falsy *)
filterBoolean(parts) == SelectSeq(parts, LAMBDA p : p # "")

RECURSIVE trimStart(_)
trimStart(s) ==
  IF s # "" /\ IsSpaceChar(SubSeq(s, 1, 1)) THEN trimStart(SubSeq(s, 2, Len(s))) ELSE s

RECURSIVE trimEnd(_)
trimEnd(s) ==
  IF s # "" /\ IsSpaceChar(SubSeq(s, Len(s), Len(s)))
  THEN trimEnd(SubSeq(s, 1, Len(s) - 1)) ELSE s

trim(s) == trimEnd(trimStart(s))

(* s.replace(/\s+/g, ' ') *)
RECURSIVE collapseSpaces(_)
collapseSpaces(s) ==
  IF s = "" THEN ""
  ELSE IF IsSpaceChar(SubSeq(s, 1, 1))
       THEN " " \o collapseSpaces(trimStart(s))
       ELSE SubSeq(s, 1, 1) \o collapseSpaces(SubSeq(s, 2, Len(s)))

(* s.replace(/p/g, r) for a literal pattern p *)
RECURSIVE replaceAll(_, _, _)
replaceAll(s, p, r) ==
  IF s = "" THEN ""
  ELSE IF startsWith(s, p)
       THEN r \o replaceAll(SubSeq(s, Len(p) + 1, Len(s)), p, r)
       ELSE SubSeq(s, 1, 1) \o replaceAll(SubSeq(s, 2, Len(s)), p, r)

(* s.replace(/\.$/, '') *)
stripFinalPeriod(s) ==
  IF s # "" /\ SubSeq(s, Len(s), Len(s)) = "." THEN SubSeq(s, 1, Len(s) - 1) ELSE s

----------------------------------------------------------------------------
(* JavaScript values handed to the functions: a string, null or undefined *)

Str(s) == [t |-> "string", v |-> s]
Null == [t |-> "null"]
Undefined == [t |-> "undefined"]
(* a value that is not a string, such as a number *)
NonString == [t |-> "number"]

(* !text: null, undefined and the empty string are falsy *)
Falsy(x) == x.t # "string" \/ x.v = ""

----------------------------------------------------------------------------
(* Vocabularies *)

HONORIFICS ==
  <<"mr", "mrs", "ms", "miss", "dr", "prof", "rev", "hon", "sir", "madam", "lord", "lady",
    "capt", "major", "col", "lt", "cmdr", "sgt">>

SUFFIXES == <<"jr", "sr", "i", "ii", "iii", "iv", "v", "phd", "md", "dds", "esq">>

NAME_PARTICLES ==
  <<"von", "van", "de", "del", "della", "di", "da", "do", "dos", "das", "du", "la", "le",
    "el", "les", "lo", "mac", "mc", "o'", "al", "bin", "ibn", "ap", "ben", "bat", "bint">>

SUSPICIOUS_NAMES ==
  <<"test", "user", "admin", "sample", "demo", "fake", "anonymous", "unknown", "noreply",
    "example", "null", "undefined", "n/a", "na", "none", "blank">>

SECURITY_PATTERNS ==
  <<");", "--", "/*", "*/", ";", "drop", "select", "insert", "update", "delete", "union",
    "script", "<>">>

Range(f) == {f[i] : i \in DOMAIN f}

(* list.map(w => w.toLowerCase()) of a vocabulary *)
lowerAll(list) == [k \in 1..Len(list) |-> toLowerCase(list[k])]

loweredSuspiciousNames == lowerAll(SUSPICIOUS_NAMES)
loweredSecurityPatterns == lowerAll(SECURITY_PATTERNS)
loweredParticles == lowerAll(NAME_PARTICLES)

(* list.includes(x) *)
listIncludes(list, x) == x \in Range(list)

----------------------------------------------------------------------------
(* detectScript *)

(* the scripts object, in the order Object.entries visits its keys; a regex
   is the set of code point ranges of its character class *)
scripts ==
  << [script |-> "cyrillic",   ranges |-> {<<1024, 1279>>}],
     [script |-> "devanagari", ranges |-> {<<2304, 2431>>}],
     [script |-> "arabic",     ranges |-> {<<1536, 1791>>, <<1872, 1919>>}],
     [script |-> "han",        ranges |-> {<<19968, 40959>>, <<13312, 19903>>}],
     [script |-> "hiragana",   ranges |-> {<<12352, 12447>>}],
     [script |-> "katakana",   ranges |-> {<<12448, 12543>>}],
     [script |-> "hangul",     ranges |-> {<<44032, 55215>>, <<4352, 4607>>}],
     [script |-> "thai",       ranges |-> {<<3584, 3711>>}] >>

(* regex.test(text) for a one-character class *)
regexTest(ranges, text) ==
  \E i \in 1..Len(text) : \E r \in ranges :
     CodePoint(SubSeq(text, i, i)) >= r[1] /\ CodePoint(SubSeq(text, i, i)) <= r[2]

(* mutant: the script ranges are tested before the replacement character *)
detectScript_rangesFirst(text) ==
  IF Falsy(text) THEN "unknown"
  ELSE LET hits == {k \in 1..Len(scripts) : regexTest(scripts[k].ranges, text.v)}
       IN IF hits # {}
          THEN scripts[CHOOSE k \in hits : \A j \in hits : k <= j].script
          ELSE IF includes(text.v, "#") THEN "encoding-issue"
          ELSE IF regexTest({<<128, 65535>>}, text.v) THEN "non-latin"
          ELSE "latin"

detectScript(text) ==
  IF Falsy(text) THEN "unknown"
  ELSE IF includes(text.v, "#") THEN "encoding-issue"
  ELSE LET hits == {k \in 1..Len(scripts) : regexTest(scripts[k].ranges, text.v)}
       IN IF hits # {}
          THEN scripts[CHOOSE k \in hits : \A j \in hits : k <= j].script
          ELSE IF regexTest({<<128, 65535>>}, text.v) THEN "non-latin"
          ELSE "latin"

----------------------------------------------------------------------------
(* containsSecurityThreat *)

containsSecurityThreat(text) ==
  LET lowered == toLowerCase(text)
  IN IF text = "" THEN FALSE
     ELSE \E k \in 1..Len(SECURITY_PATTERNS) :
             includes(lowered, loweredSecurityPatterns[k])

----------------------------------------------------------------------------
(* properCapitalize *)

(* the default capitalization with the tail taken from index 0 *)
capitalizeFirst_sliceFromZero(w) == toUpperCase(charAt(w, 0)) \o toLowerCase(Slice(w, 0))

(* w.charAt(0).toUpperCase() + w.slice(1).toLowerCase() *)
capitalizeFirst(w) == toUpperCase(charAt(w, 0)) \o toLowerCase(Slice(w, 1))

(* the two tests of the particle loop for the k-th particle, on
   name.toLowerCase() *)
particleHit(lowered, k) ==
  \/ lowered = NAME_PARTICLES[k]
  \/ startsWith(lowered, loweredParticles[k] \o " ")

RECURSIVE properCapitalize(_, _)

RECURSIVE mapCapitalize(_, _)
mapCapitalize(parts, isLastName) ==
  IF parts = <<>> THEN <<>>
  ELSE <<properCapitalize(parts[1], isLastName)>> \o mapCapitalize(Tail(parts), isLastName)

properCapitalize(name, isLastName) ==
  LET lowered == toLowerCase(name)
      script == detectScript(Str(name))
      macLen == IF startsWith(lowered, "mac") THEN 3 ELSE 2
      hits == {k \in 1..Len(NAME_PARTICLES) : particleHit(lowered, k)}
  IN
  IF name = "" THEN ""
  ELSE IF script # "latin" /\ script # "unknown" THEN name
  ELSE IF includes(name, "-")
       THEN join(mapCapitalize(split(name, "-"), isLastName), "-")
  ELSE IF (startsWith(lowered, "mc") \/ startsWith(lowered, "mac")) /\ Len(name) > 3
       THEN capitalizeFirst(Substring(name, 0, macLen)) \o capitalizeFirst(Slice(name, macLen))
  ELSE IF startsWith(lowered, "o'") /\ Len(name) > 2
       THEN "O'" \o toUpperCase(charAt(name, 2)) \o toLowerCase(Slice(name, 3))
  ELSE IF includes(name, "'") /\ ~startsWith(lowered, "o'")
       THEN LET parts == split(name, "'")
            IN capitalizeFirst(parts[1]) \o "'" \o capitalizeFirst(parts[2])
  ELSE IF hits # {}
       THEN LET k == CHOOSE h \in hits : \A j \in hits : h <= j
                particle == NAME_PARTICLES[k]
            IN IF lowered = particle
               THEN IF isLastName THEN capitalizeFirst(name) ELSE lowered
               ELSE (IF isLastName THEN capitalizeFirst(particle) ELSE toLowerCase(particle))
                    \o " " \o properCapitalize(Slice(name, Len(particle) + 1), isLastName)
  ELSE IF includes(name, "'")
       THEN LET parts == split(name, "'")
            IN capitalizeFirst(parts[1]) \o "'"
               \o (IF parts[2] # "" THEN capitalizeFirst(parts[2]) ELSE "")
  ELSE capitalizeFirst(name)

----------------------------------------------------------------------------
(* validateName *)

(* mutant: the early return forgets isCommaFormat *)
emptyNameResult_noCommaFlag ==
  [original |-> "", firstName |-> "", lastName |-> "", middleName |-> "",
   honorific |-> "", suffix |-> "", script |-> "unknown",
   potentialIssues |-> <<"Null or empty name">>, confidenceLevel |-> "low"]

(* the result returned for null, undefined and '': it has no sanitized field *)
emptyNameResult ==
  [original |-> "", firstName |-> "", lastName |-> "", middleName |-> "",
   honorific |-> "", suffix |-> "", script |-> "unknown",
   potentialIssues |-> <<"Null or empty name">>, confidenceLevel |-> "low",
   isCommaFormat |-> FALSE]

(* mutant: the script is detected on the raw input, not on sanitizedName *)
initialResult_scriptOfOriginal(original, sanitizedName) ==
  [original |-> original, sanitized |-> sanitizedName, firstName |-> "", lastName |-> "",
   middleName |-> "", honorific |-> "", suffix |-> "",
   script |-> detectScript(Str(original)), potentialIssues |-> <<>>,
   confidenceLevel |-> "high", isCommaFormat |-> FALSE]

initialResult(original, sanitizedName) ==
  [original |-> original, sanitized |-> sanitizedName, firstName |-> "", lastName |-> "",
   middleName |-> "", honorific |-> "", suffix |-> "",
   script |-> detectScript(Str(sanitizedName)), potentialIssues |-> <<>>,
   confidenceLevel |-> "high", isCommaFormat |-> FALSE]

pushIssue(r, issue, level) ==
  [r EXCEPT !.potentialIssues = Append(@, issue), !.confidenceLevel = level]

isSuspiciousName(sanitizedName) ==
  LET lowered == toLowerCase(sanitizedName)
  IN \E k \in 1..Len(SUSPICIOUS_NAMES) : includes(lowered, loweredSuspiciousNames[k])

checkSuspicious(r, sanitizedName) ==
  IF isSuspiciousName(sanitizedName)
  THEN pushIssue(r, "Name may be a test or placeholder", "low")
  ELSE r

(* the security check skipped once the placeholder check has fired *)
checkSecurity_elseIf(r, sanitizedName) ==
  IF r.potentialIssues = <<>> /\ containsSecurityThreat(sanitizedName)
  THEN pushIssue(r, "Name may contain code or SQL patterns", "low")
  ELSE r

checkSecurity(r, sanitizedName) ==
  IF containsSecurityThreat(sanitizedName)
  THEN pushIssue(r, "Name may contain code or SQL patterns", "low")
  ELSE r

(* the chain of replace calls; of the twelve two-character repairs the two
   whose characters are in the alphabet are written out, the other ten have
   the same shape and match nothing over this alphabet *)
fixEncoding(sanitizedName) ==
  replaceAll(replaceAll(replaceAll(sanitizedName, "&$", "0"), "&~", "="), "#", "")

(* the encoding issues appended without a change of confidence *)
handleEncoding_keepsLevel(r, sanitizedName) ==
  IF r.script = "encoding-issue"
  THEN LET r1 == [r EXCEPT !.potentialIssues = Append(@, "Character encoding issues detected")]
           fixedName == fixEncoding(sanitizedName)
       IN IF fixedName # sanitizedName
          THEN [r1 EXCEPT !.sanitized = fixedName,
                          !.potentialIssues = Append(@, "Attempted to fix encoding issues")]
          ELSE r1
  ELSE r

handleEncoding(r, sanitizedName) ==
  IF r.script = "encoding-issue"
  THEN LET r1 == pushIssue(r, "Character encoding issues detected", "low")
           fixedName == fixEncoding(sanitizedName)
       IN IF fixedName # sanitizedName
          THEN [r1 EXCEPT !.sanitized = fixedName,
                          !.potentialIssues = Append(@, "Attempted to fix encoding issues")]
          ELSE r1
  ELSE r

isNonLatin(script) == script # "latin" /\ script # "unknown" /\ script # "encoding-issue"

noSpaceScripts == {"han", "hiragana", "katakana", "thai"}

(* the branch for scripts written without spaces; the caller returns its result *)
(* the branch with the final assignment guarded by the earlier level *)
splitNoSpaceScript_keepsLow(r, sanitizedName) ==
  LET parts == split(sanitizedName, " ")
      r1 == IF includes(sanitizedName, " ")
            THEN [r EXCEPT !.firstName = parts[1], !.lastName = join(Tail(parts), " ")]
            ELSE [r EXCEPT !.lastName = sanitizedName,
                           !.potentialIssues = Append(@,
                              "Non-Latin name without spaces - assuming entire name is family name")]
  IN IF r.confidenceLevel = "low" THEN r1 ELSE [r1 EXCEPT !.confidenceLevel = "medium"]

splitNoSpaceScript(r, sanitizedName) ==
  LET parts == split(sanitizedName, " ")
      r1 == IF includes(sanitizedName, " ")
            THEN [r EXCEPT !.firstName = parts[1], !.lastName = join(Tail(parts), " ")]
            ELSE [r EXCEPT !.lastName = sanitizedName,
                           !.potentialIssues = Append(@,
                              "Non-Latin name without spaces - assuming entire name is family name")]
  IN [r1 EXCEPT !.confidenceLevel = "medium"]

(* the caveat appended without raising a confidence that is already 'low' *)
markNonLatin_keepsLow(r) ==
  pushIssue(r, "Non-Latin script detected - name splitting might be incorrect",
            IF r.confidenceLevel = "low" THEN "low" ELSE "medium")

markNonLatin(r) ==
  pushIssue(r, "Non-Latin script detected - name splitting might be incorrect", "medium")

mapTrim(parts) == [k \in 1..Len(parts) |-> trim(parts[k])]

(* mutant: the comma branch does not set isCommaFormat *)
splitCommaFormat_noFlag(r, sanitizedName) ==
  LET parts == mapTrim(split(sanitizedName, ","))
      remainingParts == IF Len(parts) > 1
                        THEN filterBoolean(split(parts[2], " ")) ELSE <<>>
      first == IF Len(remainingParts) >= 1 THEN remainingParts[1] ELSE ""
      middle == IF Len(remainingParts) > 1 THEN join(Tail(remainingParts), " ") ELSE ""
  IN [r EXCEPT !.lastName = properCapitalize(parts[1], TRUE),
               !.firstName = properCapitalize(first, FALSE),
               !.middleName = IF middle # "" THEN properCapitalize(middle, FALSE) ELSE middle]

(* "LastName, FirstName MiddleName" *)
splitCommaFormat(r, sanitizedName) ==
  LET parts == mapTrim(split(sanitizedName, ","))
      remainingParts == IF Len(parts) > 1
                        THEN filterBoolean(split(parts[2], " ")) ELSE <<>>
      first == IF Len(remainingParts) >= 1 THEN remainingParts[1] ELSE ""
      middle == IF Len(remainingParts) > 1 THEN join(Tail(remainingParts), " ") ELSE ""
  IN [r EXCEPT !.isCommaFormat = TRUE,
               !.lastName = properCapitalize(parts[1], TRUE),
               !.firstName = properCapitalize(first, FALSE),
               !.middleName = IF middle # "" THEN properCapitalize(middle, FALSE) ELSE middle]

(* the honorific check: components[0] lower-cased, final period removed *)
hasHonorific(components) ==
  Len(components) > 1 /\ listIncludes(HONORIFICS, stripFinalPeriod(toLowerCase(components[1])))

(* lastComponent of the suffix check *)
suffixCandidate(components) ==
  replaceAll(stripFinalPeriod(toLowerCase(components[Len(components)])), ",", "")

hasSuffix(components) ==
  /\ Len(components) > 1
  /\ \/ listIncludes(SUFFIXES, suffixCandidate(components))
     \/ startsWith(suffixCandidate(components), "jr")
     \/ startsWith(suffixCandidate(components), "sr")

(* the suffix check made on the components left after shift() *)
stripComponents_suffixAfterShift(components) ==
  LET shifted == IF hasHonorific(components) THEN Tail(components) ELSE components
  IN IF hasSuffix(shifted)
     THEN SubSeq(shifted, 1, Len(shifted) - 1)
     ELSE shifted

(* remainingComponents after shift() and pop() *)
stripComponents(components) ==
  LET shifted == IF hasHonorific(components) THEN Tail(components) ELSE components
  IN IF hasSuffix(components) /\ shifted # <<>>
     THEN SubSeq(shifted, 1, Len(shifted) - 1)
     ELSE shifted

honorificOf(components) ==
  IF hasHonorific(components) THEN properCapitalize(components[1], FALSE) ELSE ""

suffixOf(components) ==
  IF hasSuffix(components) THEN toUpperCase(suffixCandidate(components)) ELSE ""

(* mutant: with two components the last name is capitalized as a first name *)
assignNames_noLastNameMode(r, remainingComponents) ==
  LET n == Len(remainingComponents)
  IN IF n = 0
     THEN pushIssue(r, "Name consists of only honorifics/suffixes", "low")
     ELSE IF n = 1
     THEN pushIssue([r EXCEPT !.firstName = properCapitalize(remainingComponents[1], FALSE)],
                    "Only a single name was provided", "medium")
     ELSE IF n = 2
     THEN [r EXCEPT !.firstName = properCapitalize(remainingComponents[1], FALSE),
                    !.lastName = properCapitalize(remainingComponents[2], FALSE)]
     ELSE [r EXCEPT !.firstName = properCapitalize(remainingComponents[1], FALSE),
                    !.lastName = properCapitalize(remainingComponents[n], TRUE),
                    !.middleName =
                       join(mapCapitalize(SubSeq(remainingComponents, 2, n - 1), FALSE), " ")]

(* first, middle and last name from the components left *)
assignNames(r, remainingComponents) ==
  LET n == Len(remainingComponents)
  IN IF n = 0
     THEN pushIssue(r, "Name consists of only honorifics/suffixes", "low")
     ELSE IF n = 1
     THEN pushIssue([r EXCEPT !.firstName = properCapitalize(remainingComponents[1], FALSE)],
                    "Only a single name was provided", "medium")
     ELSE IF n = 2
     THEN [r EXCEPT !.firstName = properCapitalize(remainingComponents[1], FALSE),
                    !.lastName = properCapitalize(remainingComponents[2], TRUE)]
     ELSE [r EXCEPT !.firstName = properCapitalize(remainingComponents[1], FALSE),
                    !.lastName = properCapitalize(remainingComponents[n], TRUE),
                    !.middleName =
                       join(mapCapitalize(SubSeq(remainingComponents, 2, n - 1), FALSE), " ")]

splitComponents(r, processedName) ==
  LET components == filterBoolean(split(processedName, " "))
  IN assignNames([r EXCEPT !.honorific = honorificOf(components),
                           !.suffix = suffixOf(components)],
                 stripComponents(components))

validateName(name) ==
  IF name.t = "null" \/ name.t = "undefined" \/ name.v = ""
  THEN emptyNameResult
  ELSE LET inputStr == trim(name.v)
           sanitizedName == collapseSpaces(inputStr)
           r0 == initialResult(name.v, sanitizedName)
           r3 == handleEncoding(checkSecurity(checkSuspicious(r0, sanitizedName),
                                              sanitizedName), sanitizedName)
       IN IF sanitizedName = ""
          THEN pushIssue(r0, "Empty name after sanitization", "low")
          ELSE IF isNonLatin(r3.script) /\ r3.script \in noSpaceScripts
          THEN splitNoSpaceScript(r3, sanitizedName)
          ELSE LET r4 == IF isNonLatin(r3.script) THEN markNonLatin(r3) ELSE r3
               IN IF includes(sanitizedName, ",")
                  THEN splitCommaFormat(r4, sanitizedName)
                  ELSE splitComponents(r4, sanitizedName)

----------------------------------------------------------------------------
(* Inputs of validateName: words joined by single spaces.  The empty word
   gives leading, trailing and doubled spaces; the tab word gives other
   white space. *)

MaxTokens == 3
MaxCoreTokens == 4
MaxOddTokens == 2

Words ==
  {"", "\t", "Dr.", "jr", "DOE", "van", "test", "drop;", "sri", "doe,", ",", "5", "1",
   "&$#"}

(* words for the longer inputs: honorifics, suffixes, plain names, a comma *)
CoreWords == {"Dr.", "mr", "Jane", "doe", "smith,", "jr", "III."}

(* words that take the special branches of properCapitalize *)
OddWords == {"jane", "o'neil", "d'a'b", "mcdo", "a-b", "0"}

(* words of a name in Cyrillic mixed with Latin words: a word of both kinds
   of letters, a plain word, a suffix ending in a Cyrillic letter, an
   honorific *)
MixedWords == {"2A", "jane", "sr2", "Dr."}

(* x is one to n words of W joined by single spaces *)
IsNameInput(x, W, n) ==
  \E k \in 1..n : \E ws \in [1..k -> W] : x = Str(join(ws, " "))

NoResult == [none |-> TRUE]

----------------------------------------------------------------------------
(* One call of validateName on an input drawn from NameInputs *)

Init ==
  /\ \/ input \in {Null, Undefined}
     \/ IsNameInput(input, CoreWords, MaxCoreTokens)
     \/ IsNameInput(input, OddWords, MaxOddTokens)
     \/ IsNameInput(input, MixedWords, MaxCoreTokens)
     \/ IsNameInput(input, Words, MaxTokens)
  /\ result = NoResult
  /\ pc = "call"
  /\ TableInitial

CallValidateName ==
  /\ pc = "call"
  /\ result' = validateName(input)
  /\ pc' = "done"
  /\ UNCHANGED <<input, tableVars>>

Next == CallValidateName

Spec == Init /\ [][Next]_vars

----------------------------------------------------------------------------
(* Claims about validateName *)

Done == pc = "done"

hasIssue(r, issue) == \E k \in 1..Len(r.potentialIssues) : r.potentialIssues[k] = issue

SevereIssues ==
  {"Null or empty name", "Empty name after sanitization",
   "Name may contain code or SQL patterns", "Name may be a test or placeholder"}

(* words that are neither honorific, suffix nor particle, all Latin *)
PlainWords == {"jane", "Jane", "DOE", "doe"}

(* C1: whenever potentialIssues holds an empty-input, security or placeholder
   issue, confidenceLevel is 'low', on every path *)
C1_SevereIssueIsLow ==
  Done => ((\E issue \in SevereIssues : hasIssue(result, issue))
             => result.confidenceLevel = "low")

(* C2: for 'First particle Last' the first token is firstName and the
   capitalized particle followed by the capitalized last token is lastName;
   the particle is not in middleName *)
C2_ParticleInLastName ==
  Done =>
    \A F \in PlainWords, L \in PlainWords : \A k \in 1..Len(NAME_PARTICLES) :
       input = Str(join(<<F, NAME_PARTICLES[k], L>>, " "))
       => /\ result.firstName = capitalizeFirst(F)
          /\ result.lastName = capitalizeFirst(NAME_PARTICLES[k]) \o " " \o capitalizeFirst(L)
          /\ result.middleName = ""

HonorificForms == {"Dr.", "mr"}
SuffixForms == {"jr", "III."}

(* C3: for 'H F L S' the honorific is H capitalized without its final period,
   firstName and lastName are F and L capitalized, suffix is S upper-cased
   without its final period *)
C3_HonorificAndSuffix ==
  Done =>
    \A H \in HonorificForms, F \in PlainWords, L \in PlainWords, S \in SuffixForms :
       input = Str(join(<<H, F, L, S>>, " "))
       => /\ result.honorific = capitalizeFirst(stripFinalPeriod(H))
          /\ result.firstName = capitalizeFirst(F)
          /\ result.lastName = capitalizeFirst(L)
          /\ result.suffix = toUpperCase(stripFinalPeriod(S))

(* the input is 'smith, F M1 ... Mk' with words of CoreWords: ms is
   <<F, M1, ..., Mk>> *)
IsCommaTail(ms) ==
  /\ input.t = "string"
  /\ ms # <<>>
  /\ Range(ms) \subseteq CoreWords \ {"smith,"}
  /\ input.v = join(<<"smith,">> \o ms, " ")

(* C4: for 'L, F M1 ... Mk' isCommaFormat is true, lastName is L capitalized
   in last-name mode, firstName is F capitalized, middleName is M1..Mk joined
   by single spaces (as written, or each word capitalized), honorific and
   suffix are empty *)
C4_CommaFormatFields ==
  Done =>
    LET ms == IF input.t = "string" THEN Tail(split(input.v, " ")) ELSE <<>>
    IN IsCommaTail(ms)
       => /\ result.isCommaFormat
          /\ result.lastName = properCapitalize("smith", TRUE)
          /\ result.firstName = properCapitalize(ms[1], FALSE)
          /\ result.middleName \in {join(Tail(ms), " "),
                                    join(mapCapitalize(Tail(ms), FALSE), " ")}
          /\ result.honorific = ""
          /\ result.suffix = ""

(* the sanitized working string of a call: trim, then white space collapsed *)
sanitizedOf(x) == IF x.t = "string" THEN collapseSpaces(trim(x.v)) ELSE ""

isTitleWord(t) ==
  \/ listIncludes(HONORIFICS, stripFinalPeriod(toLowerCase(t)))
  \/ listIncludes(SUFFIXES, stripFinalPeriod(toLowerCase(t)))

twoTokenFields(tokens) ==
  /\ result.firstName = properCapitalize(tokens[1], FALSE)
  /\ result.lastName = properCapitalize(tokens[2], TRUE)
  /\ result.middleName = ""
  /\ result.honorific = ""
  /\ result.suffix = ""

(* C5 as stated: every non-empty Latin input of exactly two space-separated
   tokens, neither an honorific nor a suffix, gives firstName and lastName
   from the two tokens and leaves the other fields empty *)
C5_TwoTokensAsStated ==
  Done =>
    LET s == sanitizedOf(input)
        tokens == split(s, " ")
    IN (/\ s # ""
        /\ detectScript(Str(s)) = "latin"
        /\ Len(tokens) = 2
        /\ ~isTitleWord(tokens[1])
        /\ ~isTitleWord(tokens[2]))
       => twoTokenFields(tokens)

(* C5 amended: the same for inputs that contain no comma and whose second
   token does not start with 'jr' or 'sr' *)
C5_TwoTokens ==
  Done =>
    LET s == sanitizedOf(input)
        tokens == split(s, " ")
    IN (/\ s # ""
        /\ Len(tokens) = 2
        /\ ~includes(s, ",")
        /\ ~isTitleWord(tokens[1])
        /\ ~isTitleWord(tokens[2])
        /\ ~startsWith(toLowerCase(tokens[2]), "jr")
        /\ ~startsWith(toLowerCase(tokens[2]), "sr")
        /\ detectScript(Str(s)) = "latin")
       => twoTokenFields(tokens)

C5_Witness ==
  /\ Done
  /\ input = Str("DOE van")
  /\ result.firstName = "Doe"
  /\ result.lastName = "Van"

(* C6: null, undefined and '' give empty fields, script 'unknown',
   isCommaFormat false, the one issue 'Null or empty name' and confidence
   'low'; a white-space-only input gives the same with the one issue
   'Empty name after sanitization' *)
C6_EmptyInputs ==
  Done =>
    LET emptyFields ==
          /\ result.firstName = "" /\ result.middleName = "" /\ result.lastName = ""
          /\ result.honorific = "" /\ result.suffix = ""
          /\ result.script = "unknown"
          /\ result.confidenceLevel = "low"
    IN /\ input \in {Null, Undefined, Str("")}
          => /\ emptyFields
             /\ result.isCommaFormat = FALSE
             /\ result.potentialIssues = <<"Null or empty name">>
       /\ (input.t = "string" /\ input.v # "" /\ Chars(input.v) \subseteq {" ", "\t"})
          => /\ emptyFields
             /\ result.potentialIssues = <<"Empty name after sanitization">>

C6_Witness ==
  /\ Done
  /\ input = Str(" \t")
  /\ result.potentialIssues = <<"Empty name after sanitization">>

ScriptTags ==
  {"latin", "cyrillic", "devanagari", "arabic", "han", "hiragana", "katakana", "hangul",
   "thai", "non-latin", "encoding-issue", "unknown"}

ConfidenceLevels == {"high", "medium", "low"}

RequiredFields ==
  {"original", "firstName", "middleName", "lastName", "honorific", "suffix", "script",
   "isCommaFormat", "potentialIssues", "confidenceLevel"}

fieldsWellFormed(r) ==
  /\ \A f \in {"original", "firstName", "middleName", "lastName", "honorific", "suffix"} :
        r[f] \in STRING
  /\ r.script \in ScriptTags
  /\ r.isCommaFormat \in BOOLEAN
  /\ \A k \in 1..Len(r.potentialIssues) : r.potentialIssues[k] \in STRING
  /\ r.confidenceLevel \in ConfidenceLevels

(* C7 as stated: every call returns a result in which every field of the
   data model, sanitized included, is set *)
C7_AllFieldsSetAsStated ==
  Done => (RequiredFields \cup {"sanitized"}) \subseteq DOMAIN result

(* C7 amended: every call returns a result in which original, firstName,
   middleName, lastName, honorific, suffix, script (one of the twelve tags),
   isCommaFormat, potentialIssues and confidenceLevel (high, medium or low)
   are set; sanitized is set exactly when the input is a non-empty string *)
C7_WellFormed ==
  Done =>
    /\ RequiredFields \subseteq DOMAIN result
    /\ fieldsWellFormed(result)
    /\ ("sanitized" \in DOMAIN result) <=> (input \notin {Null, Undefined, Str("")})
    /\ "sanitized" \in DOMAIN result => result.sanitized \in STRING

C7_Witness ==
  /\ Done
  /\ input = Null
  /\ DOMAIN result = RequiredFields

(* tokens of a string, lower-cased, commas and a final period removed *)
normTokens(s) ==
  LET tokens == filterBoolean(split(s, " "))
      norm == [k \in 1..Len(tokens) |->
                 stripFinalPeriod(replaceAll(toLowerCase(tokens[k]), ",", ""))]
  IN filterBoolean(norm)

count(seq, t) == Cardinality({k \in 1..Len(seq) : seq[k] = t})

sameBag(a, b) == \A t \in Range(a) \cup Range(b) : count(a, t) = count(b, t)

(* C8: for a non-empty sanitized string the tokens are partitioned among
   honorific, firstName, middleName, lastName and suffix: the fields together
   hold the same multiset of tokens, up to case and trailing punctuation.
   The tokens are those of the string the fields are split from (the
   sanitized input before any encoding repair). *)
C8_TokensPartitioned ==
  (Done /\ sanitizedOf(input) # "")
  => sameBag(normTokens(sanitizedOf(input)),
             normTokens(join(<<result.honorific, result.firstName, result.middleName,
                               result.lastName, result.suffix>>, " ")))

(* C9: isCommaFormat is true exactly when the sanitized string contains a
   comma and the fields come from splitting at it (the part before the first
   comma is lastName); it is false for null and empty results, on the
   tokenizing path and when another rule produced the fields *)
C9_CommaFormatIff ==
  Done =>
    LET s == sanitizedOf(input)
    IN /\ result.isCommaFormat <=> (includes(s, ",") /\ result.script \notin noSpaceScripts)
       /\ result.isCommaFormat
          => /\ includes(result.sanitized, ",")
             /\ result.lastName = properCapitalize(trim(split(s, ",")[1]), TRUE)
             /\ result.honorific = ""
             /\ result.suffix = ""

C9_Witness ==
  /\ Done
  /\ input = Str("smith, Jane")
  /\ result.isCommaFormat
  /\ result.lastName = "Smith"
  /\ result.firstName = "Jane"

(* the text before the first space of s, and the text after it *)
beforeFirstSpace(s) == split(s, " ")[1]
afterFirstSpace(s) == Slice(s, Len(beforeFirstSpace(s)) + 1)

(* C11: for han, hiragana, katakana and thai input, a sanitized string without
   a space becomes lastName whole, with firstName empty and the family-name
   issue; one with a space gives firstName the text before the first space
   and lastName the text after it; either way confidenceLevel is 'medium',
   honorific, suffix and middleName are empty, isCommaFormat is false and no
   letter changes case *)
C11_NoSpaceScripts ==
  (Done /\ input.t = "string" /\ result.script \in noSpaceScripts
        /\ sanitizedOf(input) # "")
  => LET s == sanitizedOf(input)
     IN /\ ~includes(s, " ")
           => /\ result.lastName = s
              /\ result.firstName = ""
              /\ hasIssue(result,
                    "Non-Latin name without spaces - assuming entire name is family name")
        /\ includes(s, " ")
           => /\ result.firstName = beforeFirstSpace(s)
              /\ result.lastName = afterFirstSpace(s)
        /\ result.confidenceLevel = "medium"
        /\ result.honorific = ""
        /\ result.suffix = ""
        /\ result.middleName = ""
        /\ result.isCommaFormat = FALSE

C11_Witness ==
  /\ Done
  /\ input = Str("5 DOE van")
  /\ result.script = "han"
  /\ result.firstName = "5"
  /\ result.lastName = "DOE van"
  /\ result.confidenceLevel = "medium"

ForcedLowIssues ==
  {"Name may be a test or placeholder", "Name may contain code or SQL patterns",
   "Character encoding issues detected"}

(* C20: when one token remains, firstName holds it, the single-name issue is
   appended, and confidenceLevel becomes 'medium' only when no earlier step
   (placeholder, security or encoding detection) had set it to 'low' *)
C20_SingleNameKeepsLow ==
  (Done /\ input.t = "string"
        /\ hasIssue(result, "Only a single name was provided"))
  => /\ result.firstName # ""
     /\ result.lastName = ""
     /\ result.middleName = ""
     /\ result.confidenceLevel =
          IF \E k \in 1..Len(result.potentialIssues) :
                result.potentialIssues[k] \in ForcedLowIssues
          THEN "low" ELSE "medium"

(* the text before the first comma of s, and the text after it *)
beforeFirstComma(s) == split(s, ",")[1]
afterFirstComma(s) == Slice(s, Len(beforeFirstComma(s)) + 1)

commas(s) == Len(split(s, ",")) - 1

(* C21: for an input in comma format with two or more commas, lastName is the
   part before the first comma, and the tokens of the whole remainder after
   the first comma, text after later commas included, are firstName (the
   first) and middleName (the others): none is dropped.  Tokens are compared
   without case, commas and final periods. *)
C21_SplitAtFirstCommaOnly ==
  (Done /\ input.t = "string" /\ result.isCommaFormat /\ commas(sanitizedOf(input)) >= 2)
  => LET s == sanitizedOf(input)
     IN /\ result.lastName = properCapitalize(trim(beforeFirstComma(s)), TRUE)
        /\ normTokens(result.firstName \o " " \o result.middleName)
             = normTokens(afterFirstComma(s))

NameFields == {"firstName", "middleName", "lastName", "honorific", "suffix"}

(* the fields that comma detection, tokenization and field assignment give
   when they operate on the string s *)
splitOf(s) ==
  IF includes(s, ",")
  THEN splitCommaFormat(initialResult(s, s), s)
  ELSE splitComponents(initialResult(s, s), s)

(* C22: when the script is 'encoding-issue' and the repair changes the
   string, sanitized is the repaired string, the later steps operate on it
   (isCommaFormat and the name fields are those of the repaired string), and
   no firstName, middleName or lastName contains the replacement character *)
C22_RepairedStringIsSplit ==
  (Done /\ input.t = "string" /\ result.script = "encoding-issue"
        /\ fixEncoding(sanitizedOf(input)) # sanitizedOf(input))
  => LET fixedName == fixEncoding(sanitizedOf(input))
         fields == splitOf(fixedName)
     IN /\ result.sanitized = fixedName
        /\ result.isCommaFormat = includes(fixedName, ",")
        /\ \A f \in NameFields : result[f] = fields[f]
        /\ \A f \in {"firstName", "middleName", "lastName"} : ~includes(result[f], "#")

(* the call takes the tokenizing path: the sanitized string is not empty, has
   no comma and is not of a script written without spaces *)
Tokenized ==
  /\ Done
  /\ input.t = "string"
  /\ result.script \notin noSpaceScripts
  /\ LET s == sanitizedOf(input) IN s # "" /\ ~includes(s, ",")

tokensOf(x) == filterBoolean(split(sanitizedOf(x), " "))

honorificLike(t) ==
  stripFinalPeriod(toLowerCase(t))
    \in {"mr", "mrs", "ms", "miss", "dr", "prof", "rev", "hon", "sir", "madam", "lord",
         "lady", "capt", "major", "col", "lt", "cmdr", "sgt"}

suffixLike(t) ==
  LET w == stripFinalPeriod(toLowerCase(t))
  IN \/ w \in {"jr", "sr", "i", "ii", "iii", "iv", "v", "phd", "md", "dds", "esq"}
     \/ startsWith(w, "jr")
     \/ startsWith(w, "sr")

onlyTitles(r) == hasIssue(r, "Name consists of only honorifics/suffixes")

(* the outcome of a name of only honorifics and suffixes, and the single token
   that is never stripped *)
onlyTitlesOutcome(tokens) ==
  /\ onlyTitles(result)
     => /\ result.confidenceLevel = "low"
        /\ result.firstName = "" /\ result.middleName = "" /\ result.lastName = ""
  /\ Len(tokens) = 1
     => /\ result.honorific = "" /\ result.suffix = ""
        /\ result.firstName = properCapitalize(tokens[1], FALSE)
        /\ ~onlyTitles(result)

(* C23 as stated: the suffix is stripped only if more than one token remains
   after any honorific strip and the last token is a suffix word or starts
   with 'jr'/'sr'; the honorifics/suffixes-only outcome has confidence 'low'
   and empty name fields; a single token is never stripped and becomes
   firstName *)
C23_SuffixStripAsStated ==
  Tokenized
  => LET tokens == tokensOf(input)
         remaining == IF result.honorific # "" THEN Tail(tokens) ELSE tokens
     IN /\ result.suffix # ""
           => Len(remaining) > 1 /\ suffixLike(tokens[Len(tokens)])
        /\ onlyTitlesOutcome(tokens)

(* C23 amended: the suffix is stripped exactly when the input has more than
   one token, counted before any honorific strip, and the last token is a
   suffix word or starts with 'jr'/'sr'; the honorifics/suffixes-only outcome
   is returned exactly for an honorific followed by a suffix and nothing
   else, with confidence 'low' and empty name fields; a single token is never
   stripped and becomes firstName *)
C23_SuffixStrip ==
  Tokenized
  => LET tokens == tokensOf(input)
     IN /\ result.suffix # ""
           <=> Len(tokens) > 1 /\ suffixLike(tokens[Len(tokens)])
        /\ onlyTitles(result)
           <=> Len(tokens) = 2 /\ honorificLike(tokens[1]) /\ suffixLike(tokens[2])
        /\ onlyTitlesOutcome(tokens)

C23_Witness ==
  /\ Done
  /\ input = Str("Dr. jr")
  /\ result.honorific = "Dr."
  /\ result.suffix = "JR"
  /\ result.firstName = ""
  /\ result.potentialIssues = <<"Name consists of only honorifics/suffixes">>
  /\ result.confidenceLevel = "low"

PlaceholderWords ==
  {"test", "user", "admin", "sample", "demo", "fake", "anonymous", "unknown", "noreply",
   "example", "null", "undefined", "n/a", "na", "none", "blank"}

SecurityFragments ==
  {");", "--", "/*", "*/", ";", "drop", "select", "insert", "update", "delete", "union",
   "script", "<>"}

(* the place of an issue in the order of detection *)
detectionRank(issue) ==
  CASE issue = "Name may be a test or placeholder" -> 1
    [] issue = "Name may contain code or SQL patterns" -> 2
    [] issue = "Character encoding issues detected" -> 3
    [] issue = "Attempted to fix encoding issues" -> 4
    [] issue = "Non-Latin script detected - name splitting might be incorrect" -> 5
    [] issue = "Non-Latin name without spaces - assuming entire name is family name" -> 5
    [] issue = "Only a single name was provided" -> 6
    [] issue = "Name consists of only honorifics/suffixes" -> 6
    [] OTHER -> 0

inDetectionOrder(issues) ==
  /\ \A k \in 1..Len(issues) : detectionRank(issues[k]) > 0
  /\ \A j, k \in 1..Len(issues) : j < k => detectionRank(issues[j]) < detectionRank(issues[k])

(* C24: for a non-empty sanitized input the placeholder issue is present
   exactly when the lower-cased string contains a placeholder word, and the
   code/SQL issue exactly when it contains a security pattern; neither stops
   the other or the splitting (the name fields of a flagged input are those
   the splitting gives for the string); and potentialIssues is in detection
   order *)
C24_DetectionsAndOrder ==
  (Done /\ input.t = "string" /\ sanitizedOf(input) # "")
  => LET s == sanitizedOf(input)
         lowered == toLowerCase(s)
         fields == splitOf(s)
     IN /\ hasIssue(result, "Name may be a test or placeholder")
           <=> \E w \in PlaceholderWords : includes(lowered, w)
        /\ hasIssue(result, "Name may contain code or SQL patterns")
           <=> \E p \in SecurityFragments : includes(lowered, p)
        /\ (/\ result.script \notin noSpaceScripts
            /\ \/ hasIssue(result, "Name may be a test or placeholder")
               \/ hasIssue(result, "Name may contain code or SQL patterns"))
           => \A f \in NameFields : result[f] = fields[f]
        /\ inDetectionOrder(result.potentialIssues)

C24_Witness ==
  /\ Done
  /\ input = Str("&$# test drop;")
  /\ result.potentialIssues =
       <<"Name may be a test or placeholder", "Name may contain code or SQL patterns",
         "Character encoding issues detected", "Attempted to fix encoding issues">>
  /\ result.firstName = "&$#"
  /\ result.middleName = "Test"
  /\ result.lastName = "Drop;"

(* the non-Latin scripts that are written with spaces *)
SpacedScripts == {"cyrillic", "devanagari", "arabic", "hangul", "non-latin"}

nonAscii(w) == \E c \in Chars(w) : CodePoint(c) > 127

(* the text of the input that the splitting puts in each field, before any
   change of case: of the comma format, and of the token list *)
rawCommaFields(s) ==
  LET parts == split(s, ",")
      rest == filterBoolean(split(trim(parts[2]), " "))
  IN [lastName |-> trim(parts[1]),
      firstName |-> IF rest # <<>> THEN rest[1] ELSE "",
      middleName |-> IF rest # <<>> THEN join(Tail(rest), " ") ELSE "",
      suffix |-> ""]

rawTokenFields(s) ==
  LET tokens == filterBoolean(split(s, " "))
      n == Len(tokens)
      a == IF n > 1 /\ honorificLike(tokens[1]) THEN 2 ELSE 1
      z == IF n > 1 /\ suffixLike(tokens[n]) THEN n - 1 ELSE n
      rc == SubSeq(tokens, a, z)
  IN [firstName |-> IF Len(rc) >= 1 THEN rc[1] ELSE "",
      lastName |-> IF Len(rc) >= 2 THEN rc[Len(rc)] ELSE "",
      middleName |-> IF Len(rc) >= 3 THEN join(SubSeq(rc, 2, Len(rc) - 1), " ") ELSE "",
      suffix |-> IF z < n THEN tokens[n] ELSE ""]

rawFields(s) == IF includes(s, ",") THEN rawCommaFields(s) ELSE rawTokenFields(s)

(* the caveat, the splitting and the confidence of an input in a spaced
   non-Latin script *)
fallsThrough(s) ==
  /\ hasIssue(result, "Non-Latin script detected - name splitting might be incorrect")
  /\ result.isCommaFormat = includes(s, ",")
  /\ LET fields == splitOf(s) IN \A f \in NameFields : result[f] = fields[f]
  /\ result.confidenceLevel = IF onlyTitles(result) THEN "low" ELSE "medium"

(* C25 as stated: an input in cyrillic, devanagari, arabic, hangul or
   non-latin script gets the non-Latin caveat and the same splitting as Latin
   input; every emitted name field (firstName, middleName, lastName) that
   contains non-Latin characters is the text of the input unchanged;
   confidenceLevel is 'medium' unless a later step
   forces 'low' *)
C25_NonLatinFallsThroughAsStated ==
  (Done /\ result.script \in SpacedScripts)
  => LET s == sanitizedOf(input)
         raw == rawFields(s)
     IN /\ fallsThrough(s)
        /\ \A f \in {"firstName", "middleName", "lastName"} :
              nonAscii(result[f]) => result[f] = raw[f]

(* C25 amended: the same, where the text passed through unchanged is every
   firstName and lastName that contains non-Latin characters, every
   middleName of the comma format that does, and every word that does of a
   middleName of the token list, whose words are capitalized one by one *)
C25_NonLatinFallsThrough ==
  (Done /\ result.script \in SpacedScripts)
  => LET s == sanitizedOf(input)
         raw == rawFields(s)
         rawMiddle == split(raw.middleName, " ")
         middle == split(result.middleName, " ")
     IN /\ fallsThrough(s)
        /\ \A f \in {"firstName", "lastName"} : nonAscii(raw[f]) => result[f] = raw[f]
        /\ (result.isCommaFormat /\ nonAscii(raw.middleName))
           => result.middleName = raw.middleName
        /\ ~result.isCommaFormat
           => /\ Len(middle) = Len(rawMiddle)
              /\ \A k \in 1..Len(rawMiddle) : nonAscii(rawMiddle[k]) => middle[k] = rawMiddle[k]

C25_Witness ==
  /\ Done
  /\ input = Str("2A 2A jane sr2")
  /\ result.script = "cyrillic"
  /\ result.firstName = "2A"
  /\ result.middleName = "2A"
  /\ result.lastName = "Jane"
  /\ result.suffix = "SR1"
  /\ result.confidenceLevel = "medium"

(* the input written last name first: 'L, F M1 ... Mk' for tokens F M1 ... Mk L *)
commaInverted(tokens) ==
  tokens[Len(tokens)] \o ", " \o join(SubSeq(tokens, 1, Len(tokens) - 1), " ")

(* C27: for Latin tokens F, M1..Mk, L without commas, none an honorific or a
   suffix (nor taken for a suffix by its first letters), the call on
   'F M1 ... Mk L' and the call on 'L, F M1 ... Mk' return the same firstName,
   middleName and lastName and differ in isCommaFormat *)
C27_CommaAndNaturalOrderAgree ==
  (Tokenized /\ result.script = "latin" /\ Len(tokensOf(input)) >= 2
     /\ \A k \in 1..Len(tokensOf(input)) :
           ~honorificLike(tokensOf(input)[k]) /\ ~suffixLike(tokensOf(input)[k]))
  => LET inverted == validateName(Str(commaInverted(tokensOf(input))))
     IN /\ inverted.isCommaFormat
        /\ ~result.isCommaFormat
        /\ inverted.firstName = result.firstName
        /\ inverted.middleName = result.middleName
        /\ inverted.lastName = result.lastName

(* C29: a result of confidence 'high' has no issues (every step that appends
   an issue lowers the confidence to 'medium' or 'low'), and 'Attempted to
   fix encoding issues' appears only immediately after 'Character encoding
   issues detected' *)
C29_HighMeansNoIssues ==
  Done
  => /\ result.confidenceLevel = "high" => result.potentialIssues = <<>>
     /\ \A k \in 1..Len(result.potentialIssues) :
           result.potentialIssues[k] = "Attempted to fix encoding issues"
           => /\ k > 1
              /\ result.potentialIssues[k - 1] = "Character encoding issues detected"

C29_Witness ==
  /\ Done
  /\ input = Str("&$# DOE")
  /\ result.potentialIssues =
       <<"Character encoding issues detected", "Attempted to fix encoding issues">>
  /\ result.confidenceLevel = "low"

----------------------------------------------------------------------------
(* One call of detectScript on a value drawn from ScriptInputs: strings over
   one or two characters of every class the function distinguishes *)

MaxScriptLen == 3

ScriptAlphabet == {"a", " ", "#", "1", "3", "4", "!", "5", "?", "6", "7", "8", "^", "9", "0"}

(* x is a string of at most n characters of A *)
IsStringOver(x, A, n) ==
  \E k \in 0..n : \E cs \in [1..k -> A] : x = Str(join(cs, ""))

InitScript ==
  /\ \/ input \in {Null, Undefined, NonString}
     \/ IsStringOver(input, ScriptAlphabet, MaxScriptLen)
  /\ result = NoResult
  /\ pc = "call"
  /\ TableInitial

CallDetectScript ==
  /\ pc = "call"
  /\ result' = [script |-> detectScript(input)]
  /\ pc' = "done"
  /\ UNCHANGED <<input, tableVars>>

NextScript == CallDetectScript

SpecScript == InitScript /\ [][NextScript]_vars

(* the class of a character, from the table at the head of the module *)
charClass(c) ==
  CASE c = "#" -> "replacement"
    [] c \in {"1", "2"} -> "cyrillic"
    [] c = "3" -> "devanagari"
    [] c \in {"4", "!"} -> "arabic"
    [] c \in {"5", "?"} -> "han"
    [] c = "6" -> "hiragana"
    [] c = "7" -> "katakana"
    [] c \in {"8", "^"} -> "hangul"
    [] c = "9" -> "thai"
    [] c \in {"0", "@", "=", "+", "&", "%", "$", "~", "_"} -> "other"
    [] OTHER -> "ascii"

scriptPriority ==
  <<"cyrillic", "devanagari", "arabic", "han", "hiragana", "katakana", "hangul", "thai">>

classesOf(w) == {charClass(c) : c \in Chars(w)}

referenceScript(x) ==
  IF x.t # "string" THEN "unknown"
  ELSE IF x.v = "" THEN "unknown"
  ELSE IF "replacement" \in classesOf(x.v) THEN "encoding-issue"
  ELSE IF \E k \in 1..Len(scriptPriority) : scriptPriority[k] \in classesOf(x.v)
       THEN LET first == CHOOSE k \in 1..Len(scriptPriority) :
                            /\ scriptPriority[k] \in classesOf(x.v)
                            /\ \A j \in 1..(k - 1) : scriptPriority[j] \notin classesOf(x.v)
            IN scriptPriority[first]
  ELSE IF "other" \in classesOf(x.v) THEN "non-latin"
  ELSE "latin"

(* C10: detectScript agrees with the reference classifier: null, non-string
   and empty give 'unknown'; else a replacement character gives
   'encoding-issue'; else the earliest script of the priority order that has
   a character in the text; else 'non-latin' for any character outside
   ASCII; else 'latin' *)
C10_DetectScriptIsReference ==
  Done => result.script = referenceScript(input)

C10_Witness ==
  /\ Done
  /\ input = Str("5a1")
  /\ result.script = "cyrillic"

----------------------------------------------------------------------------
(* One call of properCapitalize on a word over letters, hyphen, apostrophe
   and space, in either mode.  The letters spell the prefixes the function
   tests (mc, mac, o') and several particles (da, do, la, al, am). *)

MaxCapLen == 4

CapAlphabet == {"a", "c", "d", "l", "m", "o", "M", "'", "-", " "}

InitCap ==
  /\ \E isLastName \in BOOLEAN : \E k \in 0..MaxCapLen : \E cs \in [1..k -> CapAlphabet] :
        input = [name |-> join(cs, ""), isLastName |-> isLastName]
  /\ result = NoResult
  /\ pc = "call"
  /\ TableInitial

CallProperCapitalize ==
  /\ pc = "call"
  /\ result' = [capitalized |-> properCapitalize(input.name, input.isLastName)]
  /\ pc' = "done"
  /\ UNCHANGED <<input, tableVars>>

NextCap == CallProperCapitalize

SpecCap == InitCap /\ [][NextCap]_vars

(* C18: properCapitalize is idempotent in both modes: capitalizing the
   returned word again, in the same mode, returns it unchanged *)
C18_Idempotent ==
  Done => properCapitalize(result.capitalized, input.isLastName) = result.capitalized

C18_Witness ==
  /\ Done
  /\ input = [name |-> "o'ma", isLastName |-> TRUE]
  /\ result.capitalized = "O'Ma"
  /\ properCapitalize("O'Ma", TRUE) = "O'Ma"

(* C28: properCapitalize changes letter case only: for a non-empty word, in
   either mode, the result has the length of the word and equals it when
   both are lower-cased *)
C28_CaseChangeOnly ==
  (Done /\ input.name # "")
  => /\ Len(result.capitalized) = Len(input.name)
     /\ toLowerCase(result.capitalized) = toLowerCase(input.name)

----------------------------------------------------------------------------
(* The component NameTable: uploaded files, processCSV with its deferred
   chunks, filterProblemNames, Remove File *)

(* const chunkSize = 100 *)
chunkSize == 100

MaxChunks == 1

(* A parsed row is a function from column names to strings; a row with too
   few fields lacks its last columns.  The name cells cover every outcome of
   validateName that the handlers distinguish. *)
NameCells ==
  << "Jane DOE", "test", "test DOE", "drop; DOE", " ", "", "5", "doe, jane",
     "Dr. Jane van DOE jr", "Dr. jr", "&$# test DOE" >>

IdCells == <<"a", "b", "c">>

NameCycle == Len(NameCells) + 1

(* the i-th data row under a two-column header: the cells cycle, and the
   last row of each cycle is short *)
parsedRow(fields, i) ==
  LET k == ((i - 1) % NameCycle) + 1
      id == fields[1] :> IdCells[((i - 1) % Len(IdCells)) + 1]
  IN IF k = NameCycle \/ Len(fields) < 2 THEN id ELSE id @@ (fields[2] :> NameCells[k])

(* results of Papa.parse with header: true *)
parseResult(fields, n) ==
  [data |-> [i \in 1..n |-> parsedRow(fields, i)], fields |-> fields]

(* the files the user can pick, by name, with what Papa.parse makes of each *)
Files ==
  [empty |-> parseResult(<<"id", "Name">>, 0),
   short |-> parseResult(<<"id", "Name">>, NameCycle),
   full |-> parseResult(<<"id", "Name">>, MaxChunks * chunkSize),
   long |-> parseResult(<<"id", "Name">>, MaxChunks * chunkSize + 1),
   other |-> parseResult(<<"id", "full">>, NameCycle),
   single |-> parseResult(<<"full">>, 1)]

(* row[column]: undefined when the row has no such key *)
cell(row, column) == IF column \in DOMAIN row THEN Str(row[column]) ELSE Undefined

CellValues ==
  {Str(NameCells[k]) : k \in 1..Len(NameCells)}
    \cup {Str(IdCells[k]) : k \in 1..Len(IdCells)} \cup {Undefined}

(* validateName(nameValue), tabulated over the cells of the files *)
nameValidations == [v \in CellValues |-> validateName(v)]

setField(row, key, value) == (key :> value) @@ row

(* potentialIssues.some(issue => issue.includes(a) || issue.includes(b)) *)
someIssueIncludes(nv, a, b) ==
  \E k \in 1..Len(nv.potentialIssues) :
     includes(nv.potentialIssues[k], a) \/ includes(nv.potentialIssues[k], b)

(* the assignments with Middle_Name written unconditionally *)
processRow_alwaysMiddleName(row, nv) ==
  LET r1 == setField(setField(row, "First_Name", nv.firstName), "Last_Name", nv.lastName)
      r2 == setField(r1, "Middle_Name", nv.middleName)
      r3 == IF nv.honorific # "" THEN setField(r2, "Honorific", nv.honorific) ELSE r2
      r4 == IF nv.suffix # "" THEN setField(r3, "Suffix", nv.suffix) ELSE r3
      r5 == setField(r4, "Script", nv.script)
      r6 == IF Len(nv.potentialIssues) > 0
            THEN setField(r5, "Issues", join(nv.potentialIssues, "; "))
            ELSE r5
  IN setField(r6, "Confidence", nv.confidenceLevel)

(* the assignments to row in the body of the for loop *)
processRow(row, nv) ==
  LET r1 == setField(setField(row, "First_Name", nv.firstName), "Last_Name", nv.lastName)
      r2 == IF nv.middleName # "" THEN setField(r1, "Middle_Name", nv.middleName) ELSE r1
      r3 == IF nv.honorific # "" THEN setField(r2, "Honorific", nv.honorific) ELSE r2
      r4 == IF nv.suffix # "" THEN setField(r3, "Suffix", nv.suffix) ELSE r3
      r5 == setField(r4, "Script", nv.script)
      r6 == IF Len(nv.potentialIssues) > 0
            THEN setField(r5, "Issues", join(nv.potentialIssues, "; "))
            ELSE r5
  IN setField(r6, "Confidence", nv.confidenceLevel)

Min(a, b) == IF a < b THEN a ELSE b

(* validateName(row[nameColumn]) for row i of the closure b of processCSV;
   i is zero-based as in the code *)
rowValidation(b, i) == nameValidations[cell(b.newData[i + 1], b.nameColumn)]

isNonLatinRow(nv) == nv.script # "latin" /\ nv.script # "unknown"
isSuspiciousRow(nv) == someIssueIncludes(nv, "test", "placeholder")
isSecurityRow(nv) == someIssueIncludes(nv, "SQL", "code")
isNullRow(nv) == someIssueIncludes(nv, "Null", "empty")
hasIssuesRow(nv) == Len(nv.potentialIssues) > 0
isCommaRow(nv) == nv.isCommaFormat

(* the counters that one iteration of the for loop increments, from the
   result nv of validateName: 1 for a counter it increments, 0 otherwise *)
rowIncrements(nv) ==
  [commaFormatNames |-> IF isCommaRow(nv) THEN 1 ELSE 0,
   processed |-> 1,
   nonLatinNames |-> IF isNonLatinRow(nv) THEN 1 ELSE 0,
   suspiciousEntries |-> IF isSuspiciousRow(nv) THEN 1 ELSE 0,
   securityIssues |-> IF isSecurityRow(nv) THEN 1 ELSE 0,
   nullValues |-> IF isNullRow(nv) THEN 1 ELSE 0,
   issuesFound |-> IF hasIssuesRow(nv) THEN 1 ELSE 0]

(* rowIncrements(validateName(nameValue)), tabulated over the cells of the files *)
cellIncrements == [v \in CellValues |-> rowIncrements(nameValidations[v])]

(* the increments of row i of the closure b; i is zero-based as in the code *)
rowCounted(b, i) == cellIncrements[cell(b.newData[i + 1], b.nameColumn)]

(* the number of iterations i in start..end-1 that increment the counter *)
iterations(start, end, incs, counter) ==
  Cardinality({i \in start..(end - 1) : incs[i][counter] = 1})

(* the increments of results over the iterations start..end-1 of the for loop *)
countRows(results, start, end, incs) ==
  [results EXCEPT
     !.commaFormatNames = @ + iterations(start, end, incs, "commaFormatNames"),
     !.processed = @ + iterations(start, end, incs, "processed"),
     !.nonLatinNames = @ + iterations(start, end, incs, "nonLatinNames"),
     !.suspiciousEntries = @ + iterations(start, end, incs, "suspiciousEntries"),
     !.securityIssues = @ + iterations(start, end, incs, "securityIssues"),
     !.nullValues = @ + iterations(start, end, incs, "nullValues"),
     !.issuesFound = @ + iterations(start, end, incs, "issuesFound")]

(* for (let i = start; i < end; i++): iteration i rewrites newData[i] from
   nvs[i], the validation of its own name cell, and increments results by
   incs[i] *)
forRows(b, start, end, nvs, incs) ==
  [b EXCEPT
     !.newData = [k \in 1..Len(b.newData) |->
                    IF start < k /\ k <= end
                    THEN processRow(b.newData[k], nvs[k - 1])
                    ELSE b.newData[k]],
     !.results = countRows(b.results, start, end, incs)]

(* a start that leaves out the row on each chunk boundary *)
chunkStart_skipsBoundary(b) == b.chunkIndex * (b.chunkSize + 1)

chunkStart(b) == b.chunkIndex * b.chunkSize
chunkEnd(b) == Min(chunkStart(b) + b.chunkSize, Len(b.csvData))

(* the loop of processChunk(chunkIndex) *)
processChunk(b) ==
  forRows(b, chunkStart(b), chunkEnd(b),
          [i \in chunkStart(b)..(chunkEnd(b) - 1) |-> rowValidation(b, i)],
          [i \in chunkStart(b)..(chunkEnd(b) - 1) |-> rowCounted(b, i)])

(* the percentage taken from the chunks before this one *)
progressPct_ofChunkIndex(b) == (200 * b.chunkIndex + b.totalChunks) \div (2 * b.totalChunks)

(* Math.round(((chunkIndex + 1) / totalChunks) * 100) *)
progressPct(b) == (200 * (b.chunkIndex + 1) + b.totalChunks) \div (2 * b.totalChunks)

(* the closure that processCSV builds before it calls processChunk(0) *)
newBatch(data, column, size) ==
  [csvData |-> data,
   nameColumn |-> column,
   chunkSize |-> size,
   totalChunks |-> (Len(data) + size - 1) \div size,
   newData |-> data,
   results |-> [initialValidationResults EXCEPT !.total = Len(data)],
   chunkIndex |-> 0]

(* the callback without the test that keeps non-Latin scripts *)
keepRow_confidenceOnly(row) ==
  IF cell(row, "Confidence") \in {Str("high"), Str("medium")} THEN TRUE
  ELSE IF /\ ~Falsy(cell(row, "Issues"))
          /\ \/ includes(row["Issues"], "security")
             \/ includes(row["Issues"], "SQL")
             \/ includes(row["Issues"], "code")
             \/ includes(row["Issues"], "test")
             \/ includes(row["Issues"], "placeholder")
             \/ includes(row["Issues"], "Null")
       THEN FALSE
  ELSE TRUE

(* the callback of processedData.filter in filterProblemNames *)
keepRow(row) ==
  IF cell(row, "Confidence") \in {Str("high"), Str("medium")} THEN TRUE
  ELSE IF cell(row, "Script") \notin {Str("latin"), Str("unknown")} THEN TRUE
  ELSE IF /\ ~Falsy(cell(row, "Issues"))
          /\ \/ includes(row["Issues"], "security")
             \/ includes(row["Issues"], "SQL")
             \/ includes(row["Issues"], "code")
             \/ includes(row["Issues"], "test")
             \/ includes(row["Issues"], "placeholder")
             \/ includes(row["Issues"], "Null")
       THEN FALSE
  ELSE TRUE

(* a filter that also blanks the Issues of the rows it keeps *)
filteredData_clearsIssues(rows) ==
  LET kept == SelectSeq(rows, keepRow)
  IN [k \in 1..Len(kept) |-> setField(kept[k], "Issues", "")]

filteredData(rows) == SelectSeq(rows, keepRow)

(* the filter of results.meta.fields that auto-detects the name column *)
isPossibleNameColumn(field) ==
  /\ includes(toLowerCase(field), "name")
  /\ ~includes(toLowerCase(field), "company")
  /\ ~includes(toLowerCase(field), "business")
  /\ ~includes(toLowerCase(field), "first")
  /\ ~includes(toLowerCase(field), "last")

possibleNameColumns(fields) == SelectSeq(fields, isPossibleNameColumn)

InitTable ==
  /\ input = Undefined
  /\ result = NoResult
  /\ pc = "mounted"
  /\ TableInitial

(* handleFileUpload up to reader.readAsText: the user picks a file in either
   file input.  Reads are delivered in order; one is in flight at a time. *)
HandleFileUpload(f) ==
  /\ reading = NoRead
  /\ file' = [t |-> "File"]
  /\ error' = ""
  /\ reading' = f
  /\ UNCHANGED <<input, result, pc, csvData, columns, nameColumn, processedData,
                 validationResults, processing, processProgress, batch>>

(* reader.onload: Papa.parse and its complete callback *)
ReaderOnload ==
  /\ reading # NoRead
  /\ reading' = NoRead
  /\ LET results == Files[reading]
     IN IF Len(results.data) > 0
        THEN /\ csvData' = results.data
             /\ columns' = results.fields
             /\ nameColumn' = IF Len(possibleNameColumns(results.fields)) > 0
                              THEN possibleNameColumns(results.fields)[1]
                              ELSE IF Len(results.fields) = 1
                              THEN results.fields[1]
                              ELSE nameColumn
             /\ UNCHANGED error
        ELSE /\ error' = "No data found in the CSV file"
             /\ UNCHANGED <<csvData, columns, nameColumn>>
  /\ UNCHANGED <<input, result, pc, file, processedData, validationResults,
                 processing, processProgress, batch>>

(* onChange of the column select, shown while columns is not empty *)
SelectNameColumn(column) ==
  /\ columns # <<>>
  /\ column \in Range(columns) \cup {""}
  /\ column # nameColumn
  /\ nameColumn' = column
  /\ UNCHANGED <<input, result, pc, file, csvData, columns, processedData,
                 validationResults, processing, processProgress, error, reading, batch>>

(* processChunk(chunkIndex) on the closure b, b1 being b after the loop: the
   progress update, then either the next chunk is scheduled or the results
   are published *)
runChunk(b, b1, wasProcessing) ==
  /\ processProgress' = progressPct(b)
  /\ IF b.chunkIndex + 1 < b.totalChunks
     THEN /\ batch' = [b1 EXCEPT !.chunkIndex = @ + 1]
          /\ processing' = wasProcessing
          /\ UNCHANGED <<processedData, validationResults>>
     ELSE /\ batch' = NoBatch
          /\ processedData' = b1.newData
          /\ validationResults' = b1.results
          /\ processing' = FALSE

(* processCSV, from the button that is shown while nothing is processing and
   processedData is empty, and enabled once a name column is chosen; it runs
   processChunk(0) before it returns *)
ProcessCSV ==
  /\ columns # <<>>
  /\ ~processing
  /\ processedData = <<>>
  /\ nameColumn # ""
  /\ IF Len(csvData) = 0
     THEN /\ error' = "No data to process"
          /\ UNCHANGED <<processedData, validationResults, processing, processProgress, batch>>
     ELSE /\ runChunk(newBatch(csvData, nameColumn, chunkSize),
                      processChunk(newBatch(csvData, nameColumn, chunkSize)), TRUE)
          /\ UNCHANGED error
  /\ UNCHANGED <<input, result, pc, file, csvData, columns, nameColumn, reading>>

(* the callback of setTimeout(() => processChunk(chunkIndex + 1), 0) *)
TimeoutProcessChunk ==
  /\ batch # NoBatch
  /\ runChunk(batch, processChunk(batch), processing)
  /\ UNCHANGED <<input, result, pc, file, csvData, columns, nameColumn, error, reading>>

(* filterProblemNames, from the button shown with the results *)
FilterProblemNames ==
  /\ columns # <<>>
  /\ ~processing
  /\ processedData # <<>>
  /\ processedData' = filteredData(processedData)
  /\ validationResults' =
       [validationResults EXCEPT !.total = Len(filteredData(processedData)),
                                 !.processed = Len(filteredData(processedData)),
                                 !.securityIssues = 0,
                                 !.suspiciousEntries = 0,
                                 !.nullValues = 0]
  /\ UNCHANGED <<input, result, pc, file, csvData, columns, nameColumn,
                 processing, processProgress, error, reading, batch>>

(* onClick of Remove File, shown while a file is selected *)
RemoveFile ==
  /\ file # NoFile
  /\ file' = NoFile
  /\ csvData' = <<>>
  /\ columns' = <<>>
  /\ processedData' = <<>>
  /\ UNCHANGED <<input, result, pc, nameColumn, validationResults,
                 processing, processProgress, error, reading, batch>>

NextTable ==
  \/ \E f \in DOMAIN Files : HandleFileUpload(f)
  \/ ReaderOnload
  \/ \E column \in {"", "id", "Name", "full"} : SelectNameColumn(column)
  \/ ProcessCSV
  \/ TimeoutProcessChunk
  \/ FilterProblemNames
  \/ RemoveFile

SpecTable == InitTable /\ [][NextTable]_vars

(* The component with a file of one chunk and a file of more than one, where
   a callback that setTimeout has scheduled is eventually run *)
BatchFiles == {"short", "long"}

NextBatch ==
  \/ \E f \in BatchFiles : HandleFileUpload(f)
  \/ ReaderOnload
  \/ \E column \in {"", "id", "Name"} : SelectNameColumn(column)
  \/ ProcessCSV
  \/ TimeoutProcessChunk
  \/ FilterProblemNames
  \/ RemoveFile

SpecBatch == InitTable /\ [][NextBatch]_vars /\ WF_vars(TimeoutProcessChunk)

----------------------------------------------------------------------------
(* Claims about filterProblemNames *)

(* the rows of the short file *)
cycleRows == Files["short"].data

mentions(row, text) == "Issues" \in DOMAIN row /\ includes(row["Issues"], text)

(* C12: filterProblemNames keeps every row whose Confidence is 'high' or
   'medium' and every row whose Script is neither 'latin' nor 'unknown',
   whatever its Issues mention: each such row occurs after the filter as
   often as before it *)
C12_FilterRetains ==
  [][FilterProblemNames
       => \A row \in Range(processedData) :
             (\/ row["Confidence"] \in {"high", "medium"}
              \/ row["Script"] \notin {"latin", "unknown"})
             => count(processedData', row) = count(processedData, row)]_vars

C12_Witness ==
  /\ csvData = cycleRows
  /\ ~processing
  /\ Len(processedData) = 8
  /\ validationResults.total = 8
  /\ \E i \in 1..Len(processedData) :
        /\ processedData[i]["Confidence"] = "medium"
        /\ mentions(processedData[i], "test")
  /\ \E i \in 1..Len(processedData) :
        /\ processedData[i]["Confidence"] = "low"
        /\ processedData[i]["Script"] = "encoding-issue"
        /\ mentions(processedData[i], "placeholder")

(* a row that the filter removes, as claimed: Confidence 'low', Script
   'latin' or 'unknown', and Issues mentioning the security, the placeholder
   or either of the two empty-input issues *)
removable(row) ==
  /\ row["Confidence"] = "low"
  /\ row["Script"] \in {"latin", "unknown"}
  /\ \/ mentions(row, "Name may contain code or SQL patterns")
     \/ mentions(row, "Name may be a test or placeholder")
     \/ mentions(row, "Null or empty name")
     \/ mentions(row, "Empty name after sanitization")

notRemovable(row) == ~removable(row)

(* C13: the rows that filterProblemNames removes are exactly the rows with
   Confidence 'low', Script 'latin' or 'unknown' and Issues mentioning a
   security/code pattern, placeholder/test content or empty input, the last
   being 'Null or empty name' as well as 'Empty name after sanitization' *)
C13_FilterRemovesExactly ==
  [][FilterProblemNames => processedData' = SelectSeq(processedData, notRemovable)]_vars

(* new is old with the rows that do not occur in new left out: the rows of
   new are rows of old, unchanged and in their old order *)
onlyRemoves(old, new) == new = SelectSeq(old, LAMBDA row : row \in Range(new))

(* C19: filterProblemNames removes whole records only: the rows it keeps are
   rows of the old processedData, unchanged in every field and in their old
   order; and neither processCSV (with its chunks) nor filterProblemNames
   changes csvData *)
C19_WholeRecordsOnly ==
  [][/\ FilterProblemNames
        => /\ onlyRemoves(processedData, processedData')
           /\ csvData' = csvData
     /\ (ProcessCSV \/ TimeoutProcessChunk) => csvData' = csvData]_vars

C19_Witness ==
  /\ csvData = cycleRows
  /\ nameColumn = "Name"
  /\ ~processing
  /\ Len(processedData) = 8
  /\ processedData[1] = processRow(cycleRows[1], validateName(Str("Jane DOE")))
  /\ processedData[2] = processRow(cycleRows[2], validateName(Str("test")))
  /\ processedData[3] = processRow(cycleRows[5], validateName(Str(" ")))

----------------------------------------------------------------------------
(* Claims about processCSV *)

(* the rows and the name column that the running batch was started on: those
   of its closure, or the current ones when processCSV is about to start *)
batchRows == IF batch = NoBatch THEN csvData ELSE batch.csvData
batchColumn == IF batch = NoBatch THEN nameColumn ELSE batch.nameColumn

(* a step on which a batch publishes its results *)
Completes ==
  /\ batch' = NoBatch
  /\ batch # NoBatch \/ (processedData = <<>> /\ processedData' # <<>>)
  /\ ProcessCSV \/ TimeoutProcessChunk

(* validateName of the name cell of row i of the batch *)
validationOf(i) == nameValidations[cell(batchRows[i], batchColumn)]

rowsWhere(Test(_)) == Cardinality({i \in 1..Len(batchRows) : Test(validationOf(i))})

isEmptyInputRow(nv) ==
  hasIssue(nv, "Null or empty name") \/ hasIssue(nv, "Empty name after sanitization")
isPlaceholderRow(nv) == hasIssue(nv, "Name may be a test or placeholder")
isCodeRow(nv) == hasIssue(nv, "Name may contain code or SQL patterns")

(* C14: when a batch completes, total and processed are the number of input
   rows, and each other counter is the number of rows of its kind:
   nonLatinNames the rows of a script other than latin and unknown,
   suspiciousEntries those with the placeholder issue, securityIssues those
   with the code/SQL issue, nullValues those with either empty-input issue,
   issuesFound those with any issue, commaFormatNames those in comma format *)
C14_CountersAtCompletion ==
  [][Completes
       => /\ validationResults'.total = Len(batchRows)
          /\ validationResults'.processed = Len(batchRows)
          /\ validationResults'.nonLatinNames = rowsWhere(isNonLatinRow)
          /\ validationResults'.suspiciousEntries = rowsWhere(isPlaceholderRow)
          /\ validationResults'.securityIssues = rowsWhere(isCodeRow)
          /\ validationResults'.nullValues = rowsWhere(isEmptyInputRow)
          /\ validationResults'.issuesFound = rowsWhere(hasIssuesRow)
          /\ validationResults'.commaFormatNames = rowsWhere(isCommaRow)]_vars

AlwaysAdded == {"First_Name", "Last_Name", "Script", "Confidence"}

addedColumns(nv) ==
  AlwaysAdded
    \cup (IF nv.middleName # "" THEN {"Middle_Name"} ELSE {})
    \cup (IF nv.honorific # "" THEN {"Honorific"} ELSE {})
    \cup (IF nv.suffix # "" THEN {"Suffix"} ELSE {})
    \cup (IF nv.potentialIssues # <<>> THEN {"Issues"} ELSE {})

(* out is the input row in enriched from the validation nv *)
enriched(in, out, nv) ==
  /\ DOMAIN out = DOMAIN in \cup addedColumns(nv)
  /\ out["First_Name"] = nv.firstName
  /\ out["Last_Name"] = nv.lastName
  /\ out["Script"] = nv.script
  /\ out["Confidence"] = nv.confidenceLevel
  /\ nv.middleName # "" => out["Middle_Name"] = nv.middleName
  /\ nv.honorific # "" => out["Honorific"] = nv.honorific
  /\ nv.suffix # "" => out["Suffix"] = nv.suffix
  /\ nv.potentialIssues # <<>> => out["Issues"] = join(nv.potentialIssues, "; ")
  /\ \A c \in DOMAIN in \ addedColumns(nv) : out[c] = in[c]

(* C15: when a batch completes, processedData has the rows of the batch's
   csvData in their order, row i being input row i with First_Name,
   Last_Name, Script and Confidence set from validateName of its name cell,
   Middle_Name, Honorific and Suffix added only when not empty, Issues (the
   issues joined by '; ') only when there are issues, and every other column
   as it was *)
C15_RowsEnriched ==
  [][Completes
       => /\ Len(processedData') = Len(batchRows)
          /\ \A i \in 1..Len(batchRows) :
                enriched(batchRows[i], processedData'[i], validationOf(i))]_vars

C15_Witness ==
  /\ ~processing
  /\ nameColumn = "Name"
  /\ csvData = cycleRows
  /\ Len(processedData) = Len(csvData)
  /\ DOMAIN processedData[1] = {"id", "Name"} \cup AlwaysAdded
  /\ processedData[9]["Honorific"] = "Dr."
  /\ processedData[9]["Middle_Name"] = "van"
  /\ processedData[9]["Suffix"] = "JR"
  /\ processedData[12]["Issues"] = "Null or empty name"
  /\ "Name" \notin DOMAIN processedData[12]

(* C16: a batch whose file was removed or replaced while its chunks were
   pending never installs its rows: a deferred chunk of a batch that was
   started on rows other than the current csvData leaves processedData as it
   is *)
C16_AbandonedBatchNeverInstalls ==
  [][(TimeoutProcessChunk /\ batch.csvData # csvData)
       => processedData' = processedData]_vars

MaxChunkSize == 5

(* validateName mapped over the rows in one iteration, and the counters
   from its results *)
mappedRows(rows, column) ==
  [i \in 1..Len(rows) |-> processRow(rows[i], nameValidations[cell(rows[i], column)])]

mappedCounters(rows, column) ==
  countRows([initialValidationResults EXCEPT !.total = Len(rows)], 0, Len(rows),
            [i \in 0..(Len(rows) - 1) |-> cellIncrements[cell(rows[i + 1], column)]])

(* the chunks of the closure b run one after the other, to the last *)
RECURSIVE runChunks(_)
runChunks(b) ==
  IF b.chunkIndex + 1 < b.totalChunks
  THEN runChunks([processChunk(b) EXCEPT !.chunkIndex = @ + 1])
  ELSE processChunk(b)

(* C17: the chunked loop is equivalent to one synchronous pass: a completed
   batch publishes the rows and the counters that mapping validateName over
   the rows in one iteration gives, each row from its own name cell; and so
   does the loop run with any chunk size from 1 to MaxChunkSize *)
C17_ChunksEqualOnePass ==
  [][Completes
       => /\ processedData' = mappedRows(batchRows, batchColumn)
          /\ validationResults' = mappedCounters(batchRows, batchColumn)
          /\ Len(batchRows) <= NameCycle
             => \A size \in 1..MaxChunkSize :
                   LET b == runChunks(newBatch(batchRows, batchColumn, size))
                   IN /\ b.newData = mappedRows(batchRows, batchColumn)
                      /\ b.results = mappedCounters(batchRows, batchColumn)]_vars

C17_Witness ==
  /\ ~processing
  /\ batch = NoBatch
  /\ processProgress = 100
  /\ Len(csvData) > chunkSize
  /\ Len(processedData) = Len(csvData)
  /\ validationResults.processed = Len(csvData)
  /\ processedData[chunkSize + 1]["Issues"] = "Empty name after sanitization"
  /\ processedData[chunkSize]["First_Name"] = "Drop;"

----------------------------------------------------------------------------
(* Claims about the published counters *)

rowsWith(rows, Test(_)) == Cardinality({i \in 1..Len(rows) : Test(rows[i])})

carriesCode(row) == mentions(row, "Name may contain code or SQL patterns")
carriesPlaceholder(row) == mentions(row, "Name may be a test or placeholder")
carriesEmptyInput(row) ==
  mentions(row, "Null or empty name") \/ mentions(row, "Empty name after sanitization")
carriesIssues(row) == "Issues" \in DOMAIN row
scriptIsNonLatin(row) == row["Script"] \notin {"latin", "unknown"}

(* the counters vr agree with the rows *)
countersAgree(vr, rows) ==
  /\ vr.total = Len(rows)
  /\ vr.processed = Len(rows)
  /\ vr.securityIssues = rowsWith(rows, carriesCode)
  /\ vr.suspiciousEntries = rowsWith(rows, carriesPlaceholder)
  /\ vr.nullValues = rowsWith(rows, carriesEmptyInput)
  /\ vr.issuesFound = rowsWith(rows, carriesIssues)
  /\ vr.nonLatinNames = rowsWith(rows, scriptIsNonLatin)
  /\ vr.commaFormatNames <= vr.total

(* C26: after every completion of processCSV and every filterProblemNames,
   the published validationResults agree with the rows then in processedData:
   total and processed are the row count; securityIssues, suspiciousEntries
   and nullValues are the numbers of rows whose Issues carry the issue;
   issuesFound and nonLatinNames are the counts over the rows, and
   commaFormatNames does not exceed total *)
C26_CountersMatchRows ==
  [][(Completes \/ FilterProblemNames)
       => countersAgree(validationResults', processedData')]_vars

----------------------------------------------------------------------------
(* Claims about the progress of a batch *)

(* row k of the closure b has been through the loop *)
handled(b, k) == "Confidence" \in DOMAIN b.newData[k]

(* in the closure of a pending chunk, the chunks before it have run, in
   order, each row of theirs once, and no other row *)
chunksInOrder(b) ==
  /\ b.chunkIndex \in 1..(b.totalChunks - 1)
  /\ b.results.processed = b.chunkIndex * b.chunkSize
  /\ \A k \in 1..Len(b.newData) : handled(b, k) <=> k <= b.chunkIndex * b.chunkSize

(* a step of processChunk: one that schedules the next chunk publishes
   nothing and leaves processing true; the last one sets the progress to 100
   and processing to false *)
chunkStep(index) ==
  /\ processProgress' >= (IF index = 0 THEN 0 ELSE processProgress)
  /\ batch' # NoBatch
     => /\ batch'.chunkIndex = index + 1
        /\ processing'
        /\ UNCHANGED <<processedData, validationResults>>
  /\ batch' = NoBatch
     => /\ processProgress' = 100
        /\ ~processing'
        /\ validationResults'.processed = Len(processedData')

(* C30: with every deferred chunk eventually run, a batch that processCSV
   starts on a non-empty csvData with a name column completes; its chunks run
   in increasing order and handle each row once; processing is true from the
   start to the last chunk and false after it; processProgress does not
   decrease and is 100 at completion; only the last chunk publishes
   processedData and validationResults; and processCSV on an empty csvData or
   without a name column sets an error and leaves processing, processedData
   and validationResults as they are *)
C30_BatchCompletes ==
  /\ batch # NoBatch ~> (batch = NoBatch /\ ~processing /\ processProgress = 100)
  /\ [](processing <=> batch # NoBatch)
  /\ [](batch # NoBatch => chunksInOrder(batch))
  /\ [][/\ TimeoutProcessChunk => chunkStep(batch.chunkIndex)
        /\ ProcessCSV
           => IF Len(csvData) = 0 \/ nameColumn = ""
              THEN error' # "" /\ UNCHANGED <<processing, processedData, validationResults>>
              ELSE chunkStep(0)]_vars

C30_Witness ==
  /\ batch # NoBatch
  /\ batch.csvData = csvData
  /\ batch.chunkIndex = 1
  /\ batch.chunkIndex + 1 = batch.totalChunks
  /\ processing
  /\ processProgress = 50
  /\ processedData = <<>>
  /\ handled(batch, chunkSize)
  /\ ~handled(batch, chunkSize + 1)

====
